---- MODULE Spec2Model ----
(***************************************************************************)
(* BoundedBuffer<T> of src/src/core/bounded_buf.rs as a state machine.     *)
(*                                                                         *)
(* A caller owns two buffer variables: "a" is filled by BoundedBuffer::new *)
(* and "b" (in SpecClone) by a.clone(), the derived Clone.  Both are used  *)
(* through the safe methods and dropped.  The heap holds the block that    *)
(* new's alloc hands out and dealloc takes back; the block of a buffer of  *)
(* capacity cap has the slots 0..cap-1, and an access at a position >= cap *)
(* is out of bounds.  Element values are numbered as the caller constructs *)
(* them (1, 2, ...), so that every construction and destruction of a value *)
(* can be counted.  T is a type of non-zero size.                          *)
(*                                                                         *)
(* Spec: every safe method on "a".  SpecClone: with a.clone().  SpecPush:  *)
(* pushes and reads only.  SpecViews: the caller holds the slices it gets. *)
(* SpecNew: new on every size of a usize of WordBits bits.  SpecRemove:    *)
(* pushes and removes on a buffer of up to MaxLongCap elements.            *)
(***************************************************************************)
EXTENDS Integers, Sequences, FiniteSets, TLC

\* ---------------------------------------------------------------- bounds
MaxCap == 2
MaxElems == 3
MaxViews == 2
\* the capacity and the number of elements of the longer buffer of SpecRemove
MaxLongCap == 4
MaxLongElems == 5
\* usize is modelled with WordBits bits
WordBits == 8

Min(x, y) == IF x < y THEN x ELSE y

Max(x, y) == IF x < y THEN y ELSE x

Bufs == {"a", "b"}
Sizes == 0..MaxCap
LongSizes == 0..MaxLongCap
Slots == 0..(Max(MaxCap, MaxLongCap) - 1)
Indices == 0..MaxCap
LongIndices == 0..MaxLongCap
ElemSizes == {1, 2}
Elems == 1..Max(MaxElems, MaxLongElems)
Uninit == 0

USIZE_MAX == 2 ^ WordBits - 1
ISIZE_MAX == 2 ^ (WordBits - 1) - 1

VARIABLES
    bufs,      \* bufs[b]: the struct {ptr, len, cap} of variable b, and whether it holds a value
    given,     \* the size passed to new
    heap,      \* the block: its state, its size in bytes, how often it was deallocated
    mem,       \* mem[p]: the element bits in slot p of the block (Uninit: any bits,
               \* of a slot never written or of a block the allocator took back)
    made,      \* how many element values the caller has constructed
    drops,     \* drops[e]: how often element e has been destructed
    held,      \* held[e]: how many owned copies of e the caller holds
    elemSize,  \* size_of::<T>()
    zeroReqs,  \* how many allocation requests of zero bytes were made
    views,     \* views[b]: the borrowed views of b's elements the caller holds
    last       \* the last call and its outcome

vars == <<bufs, given, heap, mem, made, drops, held, elemSize, zeroReqs, views, last>>

\* ------------------------------------------------------------- the struct
NoBuf == [st |-> "none", ptr |-> "null", len |-> 0, cap |-> 0]

BoundedBuffer(p, l, c) == [st |-> "live", ptr |-> p, len |-> l, cap |-> c]

EmptyMem == [p \in Slots |-> Uninit]

\* Option<&T> as returned by get: a reference to a slot, or None
None == [some |-> FALSE, slot |-> -1]
Some(p) == [some |-> TRUE, slot |-> p]

\* what is read through the reference r that get returned: the bits of the
\* slot (Uninit: indeterminate), or memory outside the block
OutOfBlock == -1
Deref(self, m, r) ==
    IF r.slot >= 0 /\ r.slot < self.cap THEN m[r.slot] ELSE OutOfBlock

\* ------------------------------------------------------- raw pointer ops
\* ptr.add(pos).write(v) on a block of cap slots: an out-of-bounds write does
\* not land in the block
ptr_write(m, cap, pos, v) ==
    IF pos < cap THEN [m EXCEPT ![pos] = v] ELSE m

\* std::ptr::copy(ptr.add(src), ptr.add(dst), count): memmove
ptr_copy(m, cap, src, dst, count) ==
    [p \in Slots |->
        IF p < cap /\ p >= dst /\ p < dst + count
        THEN (IF (p - dst + src) \in Slots /\ (p - dst + src) < cap
              THEN m[p - dst + src] ELSE Uninit)
        ELSE m[p]]

\* the slot positions a copy of count elements to dst writes
CopyWrites(dst, count) == dst..(dst + count - 1)

\* ------------------------------------------------------------ the methods
\* Each method is a function of the struct (self), the block's memory (m) and
\* the arguments, giving the struct and memory after the call, the result
\* (ret, val), the slot positions written and the elements destructed.

len(self) == self.len

capacity(self) == self.cap

get(self, index) ==
    IF index > self.len THEN None ELSE Some(index)

\* the slots covered by as_slice / as_mut_slice, as the sequence of their contents
\* as_slice made from the capacity instead of the length (mutant of as_slice)
as_slice_cap(self, m) == [i \in 1..self.cap |-> m[i - 1]]

as_slice(self, m) == [i \in 1..self.len |-> m[i - 1]]

as_mut_slice(self, m) == as_slice(self, m)

\* Deref, DerefMut, AsRef<[T]> and AsMut<[T]>
deref(self, m) == as_slice(self, m)

deref_mut(self, m) == as_mut_slice(self, m)

as_ref(self, m) == as_slice(self, m)

as_mut(self, m) == as_mut_slice(self, m)

\* push_unchecked that writes the first slot instead of the slot at len
\* (mutant of push_unchecked)
push_unchecked_front(self, m, elem) ==
    [self |-> [self EXCEPT !.len = self.len + 1],
     m |-> ptr_write(m, self.cap, 0, elem),
     ret |-> "ok", val |-> 0,
     writes |-> {0}, dropped |-> <<>>]

push_unchecked(self, m, elem) ==
    [self |-> [self EXCEPT !.len = self.len + 1],
     m |-> ptr_write(m, self.cap, self.len, elem),
     ret |-> "ok", val |-> 0,
     writes |-> {self.len}, dropped |-> <<>>]

\* insert_unchecked that writes at index without shifting the tail (mutant of
\* insert_unchecked)
insert_unchecked_noshift(self, m, index, elem) ==
    [self |-> [self EXCEPT !.len = self.len + 1],
     m |-> ptr_write(m, self.cap, index, elem),
     ret |-> "ok", val |-> 0,
     writes |-> {index},
     dropped |-> <<>>]

insert_unchecked(self, m, index, elem) ==
    [self |-> [self EXCEPT !.len = self.len + 1],
     m |-> ptr_write(ptr_copy(m, self.cap, index, index + 1, len(self) - index),
                     self.cap, index, elem),
     ret |-> "ok", val |-> 0,
     writes |-> CopyWrites(index + 1, len(self) - index) \cup {index},
     dropped |-> <<>>]

\* try_push without the capacity test (mutant of try_push)
try_push_unbounded(self, m, elem) ==
    [push_unchecked(self, m, elem) EXCEPT !.ret = "true"]

\* the argument of a call that returns without storing it is dropped when the
\* call returns
try_push(self, m, elem) ==
    IF self.len = self.cap
    THEN [self |-> self, m |-> m, ret |-> "false", val |-> 0,
          writes |-> {}, dropped |-> <<elem>>]
    ELSE [push_unchecked(self, m, elem) EXCEPT !.ret = "true"]

try_insert(self, m, index, elem) ==
    IF self.len = self.cap \/ index > self.len
    THEN [self |-> self, m |-> m, ret |-> "false", val |-> 0,
          writes |-> {}, dropped |-> <<elem>>]
    ELSE [insert_unchecked(self, m, index, elem) EXCEPT !.ret = "true"]

\* the length after insert_lossy without the clamp (mutant of insert_lossy_len)
insert_lossy_len_unclamped(self) == self.len + 1

insert_lossy_len(self) == Min(self.cap, self.len + 1)

\* insert_lossy that overwrites the element at index when the buffer is full,
\* instead of shifting the tail (mutant of insert_lossy)
insert_lossy_replace(self, m, index, elem) ==
    [self |-> [self EXCEPT !.len = insert_lossy_len(self)],
     m |-> IF self.len = self.cap
           THEN ptr_write(m, self.cap, index, elem)
           ELSE ptr_write(ptr_copy(m, self.cap, index, index + 1, len(self) - index),
                          self.cap, index, elem),
     ret |-> "ok", val |-> 0,
     writes |-> {index},
     dropped |-> <<>>]

\* insert_lossy that writes at index without shifting the tail (mutant of
\* insert_lossy)
insert_lossy_noshift(self, m, index, elem) ==
    [self |-> [self EXCEPT !.len = insert_lossy_len(self)],
     m |-> ptr_write(m, self.cap, index, elem),
     ret |-> "ok", val |-> 0,
     writes |-> {index},
     dropped |-> <<>>]

insert_lossy(self, m, index, elem) ==
    [self |-> [self EXCEPT !.len = insert_lossy_len(self)],
     m |-> ptr_write(ptr_copy(m, self.cap, index, index + 1, len(self) - index),
                     self.cap, index, elem),
     ret |-> "ok", val |-> 0,
     writes |-> CopyWrites(index + 1, len(self) - index) \cup {index},
     dropped |-> <<>>]

\* remove that fills the gap with the last element instead of shifting the
\* tail, as Vec::swap_remove does (mutant of remove)
remove_swap(self, m, index) ==
    IF ~(index < self.len)
    THEN [self |-> self, m |-> m, ret |-> "panic", val |-> 0,
          writes |-> {}, dropped |-> <<>>]
    ELSE [self |-> [self EXCEPT !.len = self.len - 1],
          m |-> ptr_write(m, self.cap, index, m[self.len - 1]),
          ret |-> "some", val |-> m[index],
          writes |-> {index},
          dropped |-> <<>>]

remove(self, m, index) ==
    IF ~(index < self.len)
    THEN [self |-> self, m |-> m, ret |-> "panic", val |-> 0,
          writes |-> {}, dropped |-> <<>>]
    ELSE [self |-> [self EXCEPT !.len = self.len - 1],
          m |-> ptr_copy(m, self.cap, index + 1, index, (self.len - 1) - index),
          ret |-> "some", val |-> m[index],
          writes |-> CopyWrites(index, (self.len - 1) - index),
          dropped |-> <<>>]

clear(self, m) ==
    [self |-> [self EXCEPT !.len = 0], m |-> m,
     ret |-> "ok", val |-> 0,
     writes |-> {}, dropped |-> as_mut_slice(self, m)]

\* pop that reads the first slot instead of the last live one (mutant of pop)
pop_front(self, m) ==
    IF self.len = 0
    THEN [self |-> self, m |-> m, ret |-> "none", val |-> 0,
          writes |-> {}, dropped |-> <<>>]
    ELSE [self |-> [self EXCEPT !.len = self.len - 1], m |-> m,
          ret |-> "some", val |-> m[0],
          writes |-> {}, dropped |-> <<>>]

pop(self, m) ==
    IF self.len = 0
    THEN [self |-> self, m |-> m, ret |-> "none", val |-> 0,
          writes |-> {}, dropped |-> <<>>]
    ELSE [self |-> [self EXCEPT !.len = self.len - 1], m |-> m,
          ret |-> "some", val |-> m[self.len - 1],
          writes |-> {}, dropped |-> <<>>]

\* Drop::drop: whether the block is handed to dealloc
drop_deallocs(self, esize) == self.cap # 0 /\ esize # 0

\* The checks of new before it calls alloc: the assertion on size, and
\* Layout::array::<T>(size), which is an error when size * size_of::<T>()
\* exceeds isize::MAX; unwrap_unchecked of that error is undefined behaviour.
new_check(size, esize) ==
    IF ~(size <= ISIZE_MAX) THEN "panic"
    ELSE IF size * esize > ISIZE_MAX THEN "undefined"
    ELSE "alloc"

\* ------------------------------------------------------------ bookkeeping
Call(op, b, index, elem, r, pre, precap) ==
    [op |-> op, buf |-> b, index |-> index, elem |-> elem,
     ret |-> r.ret, val |-> r.val, writes |-> r.writes,
     pre |-> pre, precap |-> precap]

Plain(ret) == [ret |-> ret, val |-> 0, writes |-> {}]

Count(s, e) == Cardinality({i \in DOMAIN s : s[i] = e})

\* the destructor of every element of the sequence s runs
Destruct(s) == [e \in Elems |-> Min(2, drops[e] + Count(s, e))]

\* the process runs until a call aborts it
Running == \A b \in Bufs : bufs[b].st # "aborted"

Alive(b) == Running /\ bufs[b].st = "live"

\* The views the caller holds of a buffer, by the signature of the method that
\* returned them: shared is a &[T] borrowed from &self (as_slice, deref,
\* as_ref), mutref a &mut [T] borrowed from &self (as_mut_slice), mutexcl a
\* &mut [T] borrowed from &mut self (deref_mut, as_mut).
NoViews == [shared |-> 0, mutref |-> 0, mutexcl |-> 0]

ViewCount(b) == views[b].shared + views[b].mutref + views[b].mutexcl

\* the compiler accepts a call of a &self method while no &mut self borrow
\* is held, and a call of a &mut self method (or a drop) while no borrow is
CanBorrowShared(b) == views[b].mutexcl = 0

CanBorrowMut(b) == ViewCount(b) = 0

SharedViewOps == {"as_slice", "deref", "as_ref"}
MutViewOps == {"deref_mut", "as_mut"}

\* the view that method op returns
ViewOf(op, self, m) ==
    CASE op = "as_slice" -> as_slice(self, m)
      [] op = "deref" -> deref(self, m)
      [] op = "as_ref" -> as_ref(self, m)
      [] op = "as_mut_slice" -> as_mut_slice(self, m)
      [] op = "deref_mut" -> deref_mut(self, m)
      [] op = "as_mut" -> as_mut(self, m)

Contents(b) == as_slice(bufs[b], mem)

\* ------------------------------------------------------------------- Init
Init ==
    /\ bufs = [b \in Bufs |-> NoBuf]
    /\ given = 0
    /\ heap = [st |-> "unused", bytes |-> 0, frees |-> 0]
    /\ mem = EmptyMem
    /\ made = 0
    /\ drops = [e \in Elems |-> 0]
    /\ held = [e \in Elems |-> 0]
    /\ elemSize \in ElemSizes
    /\ zeroReqs = 0
    /\ views = [b \in Bufs |-> NoViews]
    /\ last = Call("init", "a", 0, 0, Plain("ok"), <<>>, 0)

\* ---------------------------------------------------------------- actions
\* let a = BoundedBuffer::new(size): the assertion on size panics or passes;
\* alloc answers with a block or with null, and new panics on null.  With a
\* layout that is an error (undefined behaviour) the build goes on to alloc
\* with whatever size it reads, and returns a buffer or panics on null.
New(size, ok) ==
    /\ Running
    /\ bufs["a"].st = "none"
    /\ zeroReqs' = IF size * elemSize = 0 THEN zeroReqs + 1 ELSE zeroReqs
    /\ given' = size
    /\ IF ok /\ new_check(size, elemSize) # "panic"
       THEN /\ heap' = [st |-> "live",
                        bytes |-> (size * elemSize) % (USIZE_MAX + 1),
                        frees |-> 0]
            /\ bufs' = [bufs EXCEPT !["a"] = BoundedBuffer("blk", 0, size)]
            /\ last' = Call("new", "a", size, 0, Plain("ok"), <<>>, size)
       ELSE /\ bufs' = [bufs EXCEPT !["a"].st = "failed"]
            /\ last' = Call("new", "a", size, 0, Plain("panic"), <<>>, size)
            /\ UNCHANGED heap
    /\ UNCHANGED <<mem, made, drops, held, elemSize, views>>

\* the effect r of a &mut self method on the struct of b, the block and the
\* elements
Apply(b, r) ==
    /\ CanBorrowMut(b)
    /\ bufs' = [bufs EXCEPT ![b] = r.self]
    /\ mem' = r.m
    /\ drops' = Destruct(r.dropped)
    /\ UNCHANGED <<given, heap, elemSize, zeroReqs, views>>

\* b.try_push(e) with the next element value, while fewer than n were made
TryPushUpTo(b, n) ==
    /\ Alive(b)
    /\ made < n
    /\ LET e == made + 1
           r == try_push(bufs[b], mem, e) IN
       /\ Apply(b, r)
       /\ made' = e
       /\ last' = Call("try_push", b, 0, e, r, Contents(b), bufs[b].cap)
    /\ UNCHANGED held

TryPush(b) == TryPushUpTo(b, MaxElems)

TryInsert(b, index) ==
    /\ Alive(b)
    /\ made < MaxElems
    /\ LET e == made + 1
           r == try_insert(bufs[b], mem, index, e) IN
       /\ Apply(b, r)
       /\ made' = e
       /\ last' = Call("try_insert", b, index, e, r, Contents(b), bufs[b].cap)
    /\ UNCHANGED held

\* the caller keeps to the precondition index <= len
InsertLossy(b, index) ==
    /\ Alive(b)
    /\ made < MaxElems
    /\ index <= bufs[b].len
    /\ LET e == made + 1
           r == insert_lossy(bufs[b], mem, index, e) IN
       /\ Apply(b, r)
       /\ made' = e
       /\ last' = Call("insert_lossy", b, index, e, r, Contents(b), bufs[b].cap)
    /\ UNCHANGED held

\* the returned value is owned by the caller
Remove(b, index) ==
    /\ Alive(b)
    /\ LET r == remove(bufs[b], mem, index) IN
       /\ Apply(b, r)
       /\ held' = IF r.ret = "some" /\ r.val \in Elems
                  THEN [held EXCEPT ![r.val] = Min(2, @ + 1)] ELSE held
       /\ last' = Call("remove", b, index, 0, r, Contents(b), bufs[b].cap)
    /\ UNCHANGED made

Pop(b) ==
    /\ Alive(b)
    /\ LET r == pop(bufs[b], mem) IN
       /\ Apply(b, r)
       /\ held' = IF r.ret = "some" /\ r.val \in Elems
                  THEN [held EXCEPT ![r.val] = Min(2, @ + 1)] ELSE held
       /\ last' = Call("pop", b, 0, 0, r, Contents(b), bufs[b].cap)
    /\ UNCHANGED made

Clear(b) ==
    /\ Alive(b)
    /\ LET r == clear(bufs[b], mem) IN
       /\ Apply(b, r)
       /\ last' = Call("clear", b, 0, 0, r, Contents(b), bufs[b].cap)
    /\ UNCHANGED <<made, held>>

Get(b, index) ==
    /\ Alive(b)
    /\ CanBorrowShared(b)
    /\ LET g == get(bufs[b], index) IN
       last' = Call("get", b, index, 0,
                    [ret |-> IF g.some THEN "some" ELSE "none", val |-> g.slot,
                     writes |-> {}],
                    <<>>, bufs[b].cap)
    /\ UNCHANGED <<bufs, given, heap, mem, made, drops, held, elemSize, zeroReqs, views>>

\* a method that returns a view of the elements: as_slice, deref and as_ref
\* (&self -> &[T]), as_mut_slice (&self -> &mut [T]), deref_mut and as_mut
\* (&mut self -> &mut [T]).  keep: the caller holds the view beyond the call.
View(b, op, keep) ==
    /\ Alive(b)
    /\ IF op \in MutViewOps THEN CanBorrowMut(b) ELSE CanBorrowShared(b)
    /\ LET v == ViewOf(op, bufs[b], mem) IN
       last' = Call(op, b, 0, 0,
                    [ret |-> "ok", val |-> Len(v), writes |-> {}],
                    v, bufs[b].cap)
    /\ IF keep
       THEN /\ ViewCount(b) < MaxViews
            /\ views' = [views EXCEPT ![b] =
                   CASE op \in SharedViewOps -> [@ EXCEPT !.shared = @ + 1]
                     [] op = "as_mut_slice" -> [@ EXCEPT !.mutref = @ + 1]
                     [] op \in MutViewOps -> [@ EXCEPT !.mutexcl = @ + 1]]
       ELSE UNCHANGED views
    /\ UNCHANGED <<bufs, given, heap, mem, made, drops, held, elemSize, zeroReqs>>

\* a view the caller holds goes out of scope
Release(b, kind) ==
    /\ Running
    /\ views[b][kind] > 0
    /\ views' = [views EXCEPT ![b][kind] = @ - 1]
    /\ last' = Call("release", b, 0, 0, Plain("ok"), <<>>, bufs[b].cap)
    /\ UNCHANGED <<bufs, given, heap, mem, made, drops, held, elemSize, zeroReqs>>

\* the variable goes out of scope: Drop::drop runs.  No element is destructed.
\* A block given to dealloc keeps its bits or is overwritten by the allocator.
\* dealloc of a block that was already deallocated is undefined behaviour:
\* the call returns, or (abort) the allocator detects the double free and
\* aborts the process inside drop.
Drop(b, abort) ==
    /\ Alive(b)
    /\ CanBorrowMut(b)
    /\ abort => (drop_deallocs(bufs[b], elemSize) /\ heap.st = "freed")
    /\ IF drop_deallocs(bufs[b], elemSize)
       THEN /\ heap' = [heap EXCEPT !.st = "freed", !.frees = Min(2, @ + 1)]
            /\ mem' \in {mem, EmptyMem}
       ELSE UNCHANGED <<heap, mem>>
    /\ bufs' = [bufs EXCEPT ![b].st = IF abort THEN "aborted" ELSE "dropped"]
    /\ last' = Call("drop", b, 0, 0, Plain(IF abort THEN "abort" ELSE "ok"),
                    Contents(b), bufs[b].cap)
    /\ UNCHANGED <<given, made, drops, held, elemSize, zeroReqs, views>>

\* let b = a.clone(): the derived Clone copies the three fields
Clone ==
    /\ Alive("a")
    /\ CanBorrowShared("a")
    /\ bufs["b"].st = "none"
    /\ bufs' = [bufs EXCEPT !["b"] = bufs["a"]]
    /\ last' = Call("clone", "b", 0, 0, Plain("ok"), Contents("a"), bufs["a"].cap)
    /\ UNCHANGED <<given, heap, mem, made, drops, held, elemSize, zeroReqs, views>>

\* the caller drops a value it got back from remove or pop
CallerDrop(e) ==
    /\ Running
    /\ held[e] > 0
    /\ held' = [held EXCEPT ![e] = @ - 1]
    /\ drops' = [drops EXCEPT ![e] = Min(2, @ + 1)]
    /\ last' = Call("caller_drop", "a", 0, e, Plain("ok"), <<>>, 0)
    /\ UNCHANGED <<bufs, given, heap, mem, made, elemSize, zeroReqs, views>>

Next ==
    \/ \E size \in Sizes, ok \in BOOLEAN : New(size, ok)
    \/ \E b \in Bufs : TryPush(b)
    \/ \E b \in Bufs, index \in Indices : TryInsert(b, index)
    \/ \E b \in Bufs, index \in Indices : InsertLossy(b, index)
    \/ \E b \in Bufs, index \in Indices : Remove(b, index)
    \/ \E b \in Bufs : Pop(b)
    \/ \E b \in Bufs : Clear(b)
    \/ \E b \in Bufs, index \in Indices : Get(b, index)
    \/ \E b \in Bufs, op \in SharedViewOps \cup {"as_mut_slice"} \cup MutViewOps :
           View(b, op, FALSE)
    \/ \E b \in Bufs, abort \in BOOLEAN : Drop(b, abort)
    \/ \E e \in Elems : CallerDrop(e)

Spec == Init /\ [][Next]_vars

\* the caller also clones: buffers are made, cloned, filled, emptied and dropped
NextClone ==
    \/ \E size \in Sizes, ok \in BOOLEAN : New(size, ok)
    \/ Clone
    \/ \E b \in Bufs : TryPush(b)
    \/ \E b \in Bufs : Pop(b)
    \/ \E b \in Bufs : Clear(b)
    \/ \E b \in Bufs, abort \in BOOLEAN : Drop(b, abort)
    \/ \E e \in Elems : CallerDrop(e)

SpecClone == Init /\ [][NextClone]_vars

\* the caller only pushes and reads: the run of test_bounded_array up to its
\* first clear
NextPush ==
    \/ \E size \in Sizes, ok \in BOOLEAN : New(size, ok)
    \/ \E b \in Bufs : TryPush(b)
    \/ \E b \in Bufs, index \in Indices : Get(b, index)
    \/ \E b \in Bufs : View(b, "as_slice", FALSE)

SpecPush == Init /\ [][NextPush]_vars

\* the caller holds views beyond the call that returned them
NextViews ==
    \/ \E size \in Sizes, ok \in BOOLEAN : New(size, ok)
    \/ \E b \in Bufs : TryPush(b)
    \/ \E b \in Bufs : Pop(b)
    \/ \E b \in Bufs : Clear(b)
    \/ \E b \in Bufs, op \in {"as_slice", "as_mut_slice", "deref_mut"} :
           View(b, op, TRUE)
    \/ \E b \in Bufs, kind \in {"shared", "mutref", "mutexcl"} : Release(b, kind)
    \/ \E b \in Bufs, abort \in BOOLEAN : Drop(b, abort)

SpecViews == Init /\ [][NextViews]_vars

\* the caller fills a longer buffer and removes at every index, so that
\* elements remain on both sides of the removed one
NextRemove ==
    \/ \E size \in LongSizes, ok \in BOOLEAN : New(size, ok)
    \/ \E b \in Bufs : TryPushUpTo(b, MaxLongElems)
    \/ \E b \in Bufs, index \in LongIndices : Remove(b, index)
    \/ \E b \in Bufs : View(b, "as_slice", FALSE)

SpecRemove == Init /\ [][NextRemove]_vars

\* new on every size a usize can hold
InitNew ==
    /\ bufs = [b \in Bufs |-> NoBuf]
    /\ given \in 0..USIZE_MAX
    /\ heap = [st |-> "unused", bytes |-> 0, frees |-> 0]
    /\ mem = EmptyMem
    /\ made = 0
    /\ drops = [e \in Elems |-> 0]
    /\ held = [e \in Elems |-> 0]
    /\ elemSize \in ElemSizes
    /\ zeroReqs = 0
    /\ views = [b \in Bufs |-> NoViews]
    /\ last = Call("init", "a", 0, 0, Plain("ok"), <<>>, 0)

NextNew == \E ok \in BOOLEAN : New(given, ok)

SpecNew == InitNew /\ [][NextNew]_vars

\* ================================================================= claims
InsertAt(s, index, x) ==
    SubSeq(s, 1, index) \o <<x>> \o SubSeq(s, index + 1, Len(s))

WasFull == Len(last.pre) = last.precap

NoneAlive == \A b \in Bufs : ~Alive(b)

\* C1: after every call of the safe operations, length() <= capacity() and
\* capacity() is the value that was given to new.
C1_CapacityInvariant ==
    \A b \in Bufs : Alive(b) =>
        /\ len(bufs[b]) >= 0
        /\ len(bufs[b]) <= capacity(bufs[b])
        /\ capacity(bufs[b]) = given

\* C1 witness: insert_lossy has just run on a full buffer of capacity > 0
C1_Witness ==
    /\ last.op = "insert_lossy"
    /\ WasFull
    /\ last.precap > 0
    /\ len(bufs[last.buf]) = capacity(bufs[last.buf])

\* C2: get(index) returns the element at index exactly when index < length,
\* and absent for every index >= length (get(length) included).
C2_GetInLiveRange ==
    last.op = "get" =>
        IF last.index < len(bufs[last.buf])
        THEN last.ret = "some" /\ last.val = last.index
        ELSE last.ret = "none"

\* C3: once the buffer has been dropped, every element value that was
\* constructed and handed to it has been destructed exactly once, or is held
\* by the caller who got it back: none is leaked, none destructed twice.
C3_BalancedAfterDrop ==
    (bufs["a"].st = "dropped" /\ NoneAlive) =>
        \A e \in 1..made : drops[e] + held[e] = 1

\* C4: no two live buffers refer to the same memory block, and no block is
\* released more than once.
C4_ExclusiveBlock ==
    /\ \A b \in Bufs, c \in Bufs :
           (b # c /\ Alive(b) /\ Alive(c)) => bufs[b].ptr # bufs[c].ptr
    /\ heap.frees <= 1

\* C5: for index in [0, length], every slot insert_lossy writes lies in
\* [0, capacity).
C5_LossyWritesInBounds ==
    last.op = "insert_lossy" => \A p \in last.writes : p >= 0 /\ p < last.precap

\* C6: on a full buffer of capacity c, the live contents after
\* insert_lossy(index, x) are the first c elements of the contents with x
\* inserted at index, and the length stays c.
C6_LossyEviction ==
    (last.op = "insert_lossy" /\ WasFull) =>
        /\ len(bufs[last.buf]) = last.precap
        /\ Contents(last.buf)
               = SubSeq(InsertAt(last.pre, last.index, last.elem), 1, last.precap)

\* C6 witness: insert_lossy(0, x) on a full buffer of two elements has left
\* x followed by the former first element
C6_Witness ==
    /\ last.op = "insert_lossy"
    /\ WasFull
    /\ last.precap = 2
    /\ last.index = 0
    /\ Contents(last.buf) = <<last.elem, last.pre[1]>>

\* C7: try_push on a full buffer returns failure and leaves the length and
\* every element unchanged.
C7_PushOnFull ==
    (last.op = "try_push" /\ WasFull) =>
        /\ last.ret = "false"
        /\ len(bufs[last.buf]) = Len(last.pre)
        /\ Contents(last.buf) = last.pre

\* C7 witness: try_push has just failed on a full buffer holding elements
C7_Witness ==
    /\ last.op = "try_push"
    /\ WasFull
    /\ last.precap > 0
    /\ last.ret = "false"

\* C8: when try_push or try_insert returns failure, the value passed in has
\* not been destructed and the caller holds it live.
C8_FailureReturnsValue ==
    (last.op \in {"try_push", "try_insert"} /\ last.ret = "false") =>
        drops[last.elem] = 0 /\ held[last.elem] = 1

\* C9: on a buffer made by new(0), try_push always returns failure and
\* get(index) is absent for every index.
C9_ZeroCapacity ==
    (last.precap = 0 /\ given = 0) =>
        /\ last.op = "try_push" => last.ret = "false"
        /\ last.op = "get" => last.ret = "none"

\* C10: new never requests an allocation of zero bytes, and once every buffer
\* is destroyed the allocations made equal the releases made.
C10_AllocBalanced ==
    /\ zeroReqs = 0
    /\ (bufs["a"].st = "dropped" /\ NoneAlive) =>
           (IF heap.st = "unused" THEN 0 ELSE 1) = heap.frees

\* C11: after pushing n <= capacity values in order onto an empty buffer (the
\* values are numbered 1..n as they are constructed), get(i) for i in 0..n-1
\* refers to the (i+1)-th value pushed, and as_slice is the sequence pushed.
C11_PushGetRoundTrip ==
    \A b \in Bufs : Alive(b) =>
        LET n == len(bufs[b]) IN
        /\ \A i \in 0..(n - 1) :
               /\ get(bufs[b], i) = Some(i)
               /\ Deref(bufs[b], mem, get(bufs[b], i)) = i + 1
        /\ as_slice(bufs[b], mem) = [k \in 1..n |-> k]

\* C11 witness: two values were pushed onto a buffer of capacity two, and the
\* second push succeeded
C11_Witness ==
    /\ last.op = "try_push"
    /\ last.ret = "true"
    /\ last.elem = 2
    /\ last.precap = 2
    /\ Contents(last.buf) = <<1, 2>>

RemoveAt(s, index) == SubSeq(s, 1, index) \o SubSeq(s, index + 2, Len(s))

\* C12: try_insert(index, value) succeeds exactly when length < capacity and
\* index <= length; on success the contents are the previous contents with
\* value inserted at index and the length is one more; on failure the length
\* and the contents are unchanged.
C12_TryInsert ==
    last.op = "try_insert" =>
        /\ (last.ret = "true") <=>
               (Len(last.pre) < last.precap /\ last.index <= Len(last.pre))
        /\ last.ret \in {"true", "false"}
        /\ IF last.ret = "true"
           THEN /\ Contents(last.buf) = InsertAt(last.pre, last.index, last.elem)
                /\ len(bufs[last.buf]) = Len(last.pre) + 1
           ELSE /\ Contents(last.buf) = last.pre
                /\ len(bufs[last.buf]) = Len(last.pre)

\* C12 witness: try_insert(0, x) has succeeded on a buffer holding one element
\* and shifted it
C12_Witness ==
    /\ last.op = "try_insert"
    /\ last.ret = "true"
    /\ last.index = 0
    /\ Len(last.pre) = 1
    /\ Contents(last.buf) = <<last.elem, last.pre[1]>>

\* C13: for index < length, remove(index) returns the element that was at
\* index, leaves the other elements in their order (those after index one
\* slot to the left) and decrements the length by one.
C13_Remove ==
    (last.op = "remove" /\ last.index < Len(last.pre)) =>
        /\ last.ret = "some"
        /\ last.val = last.pre[last.index + 1]
        /\ Contents(last.buf) = RemoveAt(last.pre, last.index)
        /\ len(bufs[last.buf]) = Len(last.pre) - 1

\* C13 witness: remove(1) on the buffer [1, 2, 3, 4] has returned 2 and left
\* [1, 3, 4]
C13_Witness ==
    /\ last.op = "remove"
    /\ last.index = 1
    /\ last.pre = <<1, 2, 3, 4>>
    /\ last.val = 2
    /\ Contents(last.buf) = <<1, 3, 4>>
    /\ len(bufs[last.buf]) = 3

\* a remove in the middle has left elements on both sides of the gap, and
\* more than one after it
C13_WitnessMiddle ==
    /\ last.op = "remove"
    /\ last.ret = "some"
    /\ last.index >= 1
    /\ Len(last.pre) >= last.index + 3

\* C14: pop on an empty buffer returns absent, without a panic, and leaves the
\* buffer unchanged; on a non-empty buffer it returns the last live element,
\* decrements the length and leaves the elements before it unchanged.
C14_Pop ==
    last.op = "pop" =>
        IF Len(last.pre) = 0
        THEN /\ last.ret = "none"
             /\ len(bufs[last.buf]) = 0
             /\ Contents(last.buf) = last.pre
        ELSE /\ last.ret = "some"
             /\ last.val = last.pre[Len(last.pre)]
             /\ len(bufs[last.buf]) = Len(last.pre) - 1
             /\ Contents(last.buf) = SubSeq(last.pre, 1, Len(last.pre) - 1)

\* C14 witness: pop on a buffer of two elements has returned the second
C14_Witness ==
    /\ last.op = "pop"
    /\ Len(last.pre) = 2
    /\ last.ret = "some"
    /\ last.val = last.pre[2]
    /\ Contents(last.buf) = <<last.pre[1]>>

\* C14 on the empty buffer: pop has returned absent
C14_WitnessEmpty ==
    /\ last.op = "pop"
    /\ Len(last.pre) = 0
    /\ last.precap > 0
    /\ last.ret = "none"

\* what a caller observes of the result r of a method
Observed(r) ==
    [ret |-> r.ret, val |-> r.val, len |-> len(r.self),
     contents |-> as_slice(r.self, r.m)]

\* what a caller observes of get(index): whether a reference is returned, and
\* what is read through it
ObservedGet(self, m, index) ==
    [some |-> get(self, index).some,
     bits |-> IF get(self, index).some
              THEN Deref(self, m, get(self, index)) ELSE Uninit]

\* every next call gives on (self, m) what it gives on (fresh, fm)
SameNextCall(self, m, fresh, fm) ==
    /\ len(self) = len(fresh)
    /\ capacity(self) = capacity(fresh)
    /\ as_slice(self, m) = as_slice(fresh, fm)
    /\ Observed(try_push(self, m, made + 1))
           = Observed(try_push(fresh, fm, made + 1))
    /\ Observed(pop(self, m)) = Observed(pop(fresh, fm))
    /\ Observed(clear(self, m)) = Observed(clear(fresh, fm))
    /\ \A index \in Indices :
           /\ Observed(try_insert(self, m, index, made + 1))
                  = Observed(try_insert(fresh, fm, index, made + 1))
           /\ index <= len(self) =>
                  Observed(insert_lossy(self, m, index, made + 1))
                      = Observed(insert_lossy(fresh, fm, index, made + 1))
           /\ Observed(remove(self, m, index)) = Observed(remove(fresh, fm, index))
           /\ ObservedGet(self, m, index) = ObservedGet(fresh, fm, index)

\* C15: after clear the length is 0, the capacity is unchanged, every element
\* that was live has been destructed exactly once, and the next call gives
\* the same results as on a freshly constructed buffer of the same capacity.
C15_ClearThenFresh ==
    last.op = "clear" =>
        /\ len(bufs[last.buf]) = 0
        /\ capacity(bufs[last.buf]) = last.precap
        /\ \A i \in 1..Len(last.pre) : drops[last.pre[i]] = 1
        /\ SameNextCall(bufs[last.buf], mem,
                        BoundedBuffer(bufs[last.buf].ptr, 0, last.precap), EmptyMem)

AllViewOps == SharedViewOps \cup {"as_mut_slice"} \cup MutViewOps

\* C16: the view returned by as_slice, as_mut_slice, deref, deref_mut, as_ref
\* and as_mut covers exactly the slots [0, length) in index order: it has
\* length() elements, its i-th element is slot i, and every slot it covers
\* holds a constructed element that has not been destructed.
C16_ViewsCoverLivePrefix ==
    last.op \in AllViewOps =>
        /\ last.val = len(bufs[last.buf])
        /\ Len(last.pre) = len(bufs[last.buf])
        /\ Len(last.pre) <= capacity(bufs[last.buf])
        /\ \A i \in 1..Len(last.pre) :
               /\ last.pre[i] = mem[i - 1]
               /\ last.pre[i] \in 1..made
               /\ drops[last.pre[i]] = 0

\* C16 witness: a view was taken of a buffer that holds one element and has
\* one more slot, which the view leaves out
C16_Witness ==
    /\ last.op \in AllViewOps
    /\ len(bufs[last.buf]) = 1
    /\ capacity(bufs[last.buf]) = 2
    /\ Len(last.pre) = 1

Mutators == {"try_push", "try_insert", "insert_lossy", "remove", "pop", "clear"}

\* C20: while the caller holds a mutable view of a buffer it holds no other
\* view of it, and no view is held when a mutating method or the destructor
\* runs.
C20_MutableViewExclusive ==
    /\ \A b \in Bufs :
           (views[b].mutref + views[b].mutexcl >= 1) => ViewCount(b) = 1
    /\ last.op \in Mutators \cup {"drop"} => ViewCount(last.buf) = 0

\* C17: new(capacity) panics, and returns no buffer, whenever capacity times
\* the element size exceeds isize::MAX, for every element size.
C17_NewRejectsOversize ==
    (last.op = "new" /\ last.index * elemSize > ISIZE_MAX) =>
        /\ last.ret = "panic"
        /\ ~Alive("a")
        /\ heap.st = "unused"

\* C18: insert_lossy on a full buffer discards exactly the element that does
\* not fit (the last of the contents with the value inserted at index), that
\* element is destructed exactly once, and every other element stays live in
\* the buffer.
C18_EvictedDestructed ==
    (last.op = "insert_lossy" /\ WasFull) =>
        LET all == InsertAt(last.pre, last.index, last.elem) IN
        /\ drops[all[last.precap + 1]] = 1
        /\ held[all[last.precap + 1]] = 0
        /\ \A i \in 1..last.precap :
               /\ Contents(last.buf)[i] = all[i]
               /\ drops[all[i]] = 0

\* C19: on a buffer that is not full, insert_lossy(index, value) with
\* index <= length does what a successful try_insert(index, value) does:
\* nothing is discarded, value is at index, the tail is one slot to the right
\* and the length is one more.
C19_LossyAsTryInsert ==
    /\ (last.op = "insert_lossy" /\ ~WasFull) =>
           /\ Contents(last.buf) = InsertAt(last.pre, last.index, last.elem)
           /\ len(bufs[last.buf]) = Len(last.pre) + 1
           /\ \A i \in 1..Len(last.pre) : drops[last.pre[i]] = 0
    /\ \A b \in Bufs : (Alive(b) /\ len(bufs[b]) < capacity(bufs[b])) =>
           \A index \in 0..len(bufs[b]) :
               LET l == insert_lossy(bufs[b], mem, index, made + 1)
                   t == try_insert(bufs[b], mem, index, made + 1) IN
               /\ t.ret = "true"
               /\ l.self = t.self
               /\ l.m = t.m
               /\ l.writes = t.writes
               /\ l.dropped = t.dropped

\* C19 witness: insert_lossy(0, x) on a buffer holding one element, with room
\* for another, has put x in front of it
C19_Witness ==
    /\ last.op = "insert_lossy"
    /\ ~WasFull
    /\ last.index = 0
    /\ Len(last.pre) = 1
    /\ Contents(last.buf) = <<last.elem, last.pre[1]>>

====
